---- MODULE Spec2Model ----
(***************************************************************************)
(* A model of the Greek iambic-trimeter scanner:                           *)
(*   src/scan_trimeter.py   is_iambic_metron, fill_metron, scan_trimeter,  *)
(*                          scan_trimeter_2                                *)
(*   src/greek_scansion.py  alnum_syl, natural_length, positional_length,  *)
(*                          scan_line                                      *)
(* Metrical strings are sequences over {"L", "S", "X"}.                    *)
(***************************************************************************)
EXTENDS Integers, Sequences, FiniteSets, TLC

LONG == "L"
SHORT == "S"
UNKNOWN == "X"

Symbols == {LONG, SHORT, UNKNOWN}

\* The assembler is run on raw meters made of an opening (one of Openings:
\* at most two metra) followed by any string of at most MaxTail symbols.
MaxTail == 7

\* fill_metron and is_iambic_metron are applied to every string of at most
\* MaxMetronLen symbols.
MaxMetronLen == 7

\* scan_line is run on every list of at most MaxSyllables syllables.
MaxSyllables == 3

(***************************************************************************)
(* Metron matcher: the two anchored regular expressions, each a            *)
(* concatenation of four groups of alternatives.                           *)
(***************************************************************************)
AncepsGroup == {<<"S", "S">>, <<"L">>, <<"S">>, <<"X">>, <<"S", "X">>, <<"X", "S">>}

LongGroup == {<<"S", "S">>, <<"L">>, <<"X">>, <<"S", "X">>, <<"X", "S">>}

ShortGroup == {<<"S">>, <<"X">>}

FinalGroup == {<<"L">>, <<"S">>, <<"X">>}

IAMBIC_NONFINAL == <<AncepsGroup, LongGroup, ShortGroup, LongGroup>>

IAMBIC_FINAL == <<AncepsGroup, LongGroup, ShortGroup, FinalGroup>>

\* regex.match on an anchored pattern ^g1 g2 ... gn$: some choice of one
\* alternative per group, from group k on, spells exactly s.
RECURSIVE RegexMatch(_, _, _)
RegexMatch(regex, k, s) ==
    IF k > Len(regex)
    THEN s = <<>>
    ELSE \E alt \in regex[k] :
            /\ Len(alt) <= Len(s)
            /\ SubSeq(s, 1, Len(alt)) = alt
            /\ RegexMatch(regex, k + 1, SubSeq(s, Len(alt) + 1, Len(s)))

is_iambic_metron(meter_string, final) ==
    LET regex == IF final THEN IAMBIC_FINAL ELSE IAMBIC_NONFINAL
    IN  RegexMatch(regex, 1, meter_string)

(***************************************************************************)
(* Metron filler.  The result of a call is a record: raised names the      *)
(* exception the call ends with ("none" when it returns) and value is the  *)
(* string returned.                                                        *)
(***************************************************************************)
possible_metra ==
    << <<"S", "S", "S", "S", "L">>,
       <<"S", "L", "S", "S", "S">>,
       <<"L", "S", "S", "S", "L">>,
       <<"S", "S", "L", "S", "L">> >>

\* ^metron$ with every X turned into '.', matched against x.
WildcardMatch(metron, x) ==
    /\ Len(x) = Len(metron)
    /\ \A i \in 1..Len(metron) : metron[i] = "X" \/ metron[i] = x[i]

EndsWithSSS(s) ==
    /\ Len(s) >= 3
    /\ SubSeq(s, Len(s) - 2, Len(s)) = <<"S", "S", "S">>

Returned(v) == [raised |-> "none", value |-> v]

Raised(e) == [raised |-> e, value |-> <<>>]

\* fill_metron with the four-symbol case returning its argument.
FillFourKeep(metron) == Returned(metron)

FillFour(metron) == Returned(<<metron[1]>> \o <<"L", "S", "L">>)

FillSix(metron) == Returned(<<metron[1]>> \o <<"S", "S", "S", "S", "S">>)

\* fill_metron with the five-symbol case collapsed to four positions.
FillFiveCollapsed(metron, final) == Returned(<<metron[1]>> \o <<"L", "S", "L">>)

FillFive(metron, final) ==
    LET matches == SelectSeq(possible_metra, LAMBDA x : WildcardMatch(metron, x))
    IN  IF matches = <<>>
        THEN Raised("IndexError")
        ELSE LET filled == matches[1]
             IN  IF final /\ metron[Len(metron)] = "X" /\ ~EndsWithSSS(filled)
                 THEN Raised("TypeError")
                 ELSE Returned(filled)

fill_metron(metron, final) ==
    LET n == Len(metron)
    IN  IF n = 4 THEN FillFour(metron)
        ELSE IF n = 6 THEN FillSix(metron)
        ELSE IF n = 5 THEN FillFive(metron, final)
        ELSE Returned(<<>>)

(***************************************************************************)
(* Characters and syllables (src/greek_scansion.py).  A character is named *)
(* by a string, a syllable is a sequence of characters.  The characters of *)
(* the model: the Greek letters of the tables below, three precomposed     *)
(* letters carrying one diacritic, the combining marks, white space, a     *)
(* comma, the apostrophe of elision, and the Latin letters of "END".       *)
(***************************************************************************)
VOWELS == {"alpha", "epsilon", "eta", "iota", "omicron", "upsilon", "omega"}

LONG_VOWELS == {"eta", "omega"}

SHORT_VOWELS == {"epsilon", "omicron"}

DIPHTHONGS ==
    { <<"alpha", "iota">>, <<"epsilon", "iota">>, <<"omicron", "iota">>,
      <<"upsilon", "iota">>, <<"alpha", "upsilon">>, <<"epsilon", "upsilon">>,
      <<"omicron", "upsilon">>, <<"eta", "upsilon">> }

CONSONANTS ==
    { "beta", "gamma", "delta", "zeta", "theta", "kappa", "lambda", "mu", "nu",
      "xi", "pi", "rho", "lunate_sigma", "sigma", "final_sigma", "tau", "phi",
      "chi", "psi" }

DOUBLE_CONS == {"zeta", "xi", "psi"}

LONG_MARKS ==
    { "combining_circumflex", "macron", "modifier_circumflex", "caret",
      "iota_subscript", "ypogegrammeni" }

SHORT_MARK == "breve"

MUTE_LIQUID ==
    { <<"theta", "lambda">>, <<"theta", "rho">>, <<"theta", "mu">>, <<"theta", "nu">>,
      <<"kappa", "lambda">>, <<"kappa", "rho">>, <<"kappa", "mu">>, <<"kappa", "nu">>,
      <<"pi", "lambda">>, <<"pi", "rho">>, <<"pi", "nu">>, <<"pi", "mu">>,
      <<"tau", "lambda">>, <<"tau", "rho">>, <<"tau", "nu">>, <<"tau", "mu">>,
      <<"phi", "lambda">>, <<"phi", "rho">>, <<"phi", "nu">>, <<"phi", "mu">>,
      <<"chi", "lambda">>, <<"chi", "rho">>, <<"chi", "nu">>, <<"chi", "mu">>,
      <<"beta", "rho">>, <<"gamma", "rho">>, <<"delta", "rho">> }

APOSTROPHE == "apostrophe"

\* The sentinel scan_line passes as the syllable after the last one.
END == <<"E", "N", "D">>

\* unicodedata.normalize('NFD', ch): a precomposed letter is its base letter
\* followed by its combining mark, any other character is itself.
NFD(ch) ==
    CASE ch = "alpha_macron" -> <<"alpha", "macron">>
      [] ch = "alpha_breve" -> <<"alpha", "breve">>
      [] ch = "alpha_acute" -> <<"alpha", "acute">>
      [] OTHER -> <<ch>>

\* str.lower on one character: the capitals of the model are E, N and D.
Lower(ch) ==
    CASE ch = "E" -> "e"
      [] ch = "N" -> "n"
      [] ch = "D" -> "d"
      [] OTHER -> ch

\* \s of the regular expressions.
IsSpace(ch) == ch = " "

\* \W of the regular expressions: white space, punctuation and combining
\* marks are not word characters; letters (the apostrophe U+02BC is one) are.
IsNonWord(ch) ==
    ch \in {" ", ",", "acute", "breve", "macron", "combining_circumflex",
            "caret", "iota_subscript"}

\* unicodedata.normalize('NFD', string) on a whole string.
RECURSIVE Decompose(_)
Decompose(s) == IF s = <<>> THEN <<>> ELSE NFD(Head(s)) \o Decompose(Tail(s))

LowerAll(s) == [i \in 1..Len(s) |-> Lower(s[i])]

strip_str(string) ==
    LowerAll([i \in 1..Len(string) |-> NFD(string[i])[1]])

alnum_syl(string) ==
    LET word == SelectSeq(string, LAMBDA ch : ~IsNonWord(ch))
        text == SelectSeq(word, LAMBDA ch : ch # APOSTROPHE)
    IN  LowerAll(text)

Contains(s, set) == \E i \in 1..Len(s) : s[i] \in set

ContainsPair(s, pairs) == \E i \in 1..(Len(s) - 1) : <<s[i], s[i + 1]>> \in pairs

natural_length(syl) ==
    LET bare_syl == strip_str(syl)
        split_chs == Decompose(syl)
    IN  IF Contains(bare_syl, LONG_VOWELS) THEN LONG
        ELSE IF ContainsPair(bare_syl, DIPHTHONGS) THEN LONG
        ELSE IF Contains(split_chs, LONG_MARKS) THEN LONG
        ELSE IF Contains(bare_syl, SHORT_VOWELS) THEN SHORT
        ELSE IF Contains(split_chs, {SHORT_MARK}) THEN SHORT
        ELSE UNKNOWN

\* The consonants at the end of s, up to the first other character.
RECURSIVE TrailingConsonants(_)
TrailingConsonants(s) ==
    IF s = <<>> \/ s[Len(s)] \notin CONSONANTS
    THEN <<>>
    ELSE Append(TrailingConsonants(SubSeq(s, 1, Len(s) - 1)), s[Len(s)])

\* The consonants at the start of s, up to the first other character.
RECURSIVE LeadingConsonants(_)
LeadingConsonants(s) ==
    IF s = <<>> \/ Head(s) \notin CONSONANTS
    THEN <<>>
    ELSE <<Head(s)>> \o LeadingConsonants(Tail(s))

positional_length(syl_raw, next_raw) ==
    LET wordbreak == IsSpace(syl_raw[Len(syl_raw)]) \/ IsSpace(next_raw[1])
        syl == alnum_syl(syl_raw)
        next_syl == alnum_syl(next_raw)
        consonant_cluster == TrailingConsonants(syl) \o LeadingConsonants(next_syl)
        status ==
            IF Len(consonant_cluster) <= 1
            THEN IF Contains(consonant_cluster, DOUBLE_CONS) THEN LONG ELSE SHORT
            ELSE IF consonant_cluster \in MUTE_LIQUID
                 THEN IF wordbreak /\ syl[Len(syl)] \in VOWELS THEN SHORT ELSE UNKNOWN
                 ELSE LONG
    IN  IF next_syl = END /\ status = SHORT THEN UNKNOWN ELSE status

\* The combination with a natural SHORT kept and a natural UNKNOWN taking the
\* positional result.
CombineLengthsKeepShort(nat, pos_len) ==
    IF pos_len = LONG THEN LONG
    ELSE IF nat = SHORT THEN SHORT
    ELSE pos_len

\* The value of current_length at the end of one iteration of scan_line,
\* for a syllable that is not long by nature.
CombineLengths(nat, pos_len) ==
    IF pos_len = LONG THEN LONG
    ELSE IF nat = SHORT THEN pos_len
    ELSE nat

(***************************************************************************)
(* State.  Three groups of variables, one per specification below:         *)
(*   the trimeter assembler (scan_trimeter and scan_trimeter_2),           *)
(*   a single call of is_iambic_metron followed by fill_metron,            *)
(*   the loop of scan_line.                                                *)
(***************************************************************************)
VARIABLES raw_meter, pc, idx, current, trimeter, is_last, countdown,
          outcome, result, accepted,
          metron_in, final_in, mpc, matched, filled_out,
          syl_list, lpc, meter, nat_lens, pos_lens

asmVars == <<raw_meter, pc, idx, current, trimeter, is_last, countdown,
             outcome, result, accepted>>

metVars == <<metron_in, final_in, mpc, matched, filled_out>>

lineVars == <<syl_list, lpc, meter, nat_lens, pos_lens>>

vars == <<asmVars, metVars, lineVars>>

AsmIdle ==
    /\ raw_meter = <<>>
    /\ pc = "idle"
    /\ idx = 0
    /\ current = <<>>
    /\ trimeter = <<>>
    /\ is_last = TRUE
    /\ countdown = 0
    /\ outcome = "idle"
    /\ result = <<>>
    /\ accepted = <<>>

MetIdle ==
    /\ metron_in = <<>>
    /\ final_in = FALSE
    /\ mpc = "idle"
    /\ matched = FALSE
    /\ filled_out = [raised |-> "none", value |-> <<>>]

LineIdle ==
    /\ syl_list = <<>>
    /\ lpc = "idle"
    /\ meter = <<>>
    /\ nat_lens = <<>>
    /\ pos_lens = <<>>

(***************************************************************************)
(* Trimeter assembler.                                                     *)
(***************************************************************************)
RECURSIVE Join(_)
Join(metra) == IF metra = <<>> THEN <<>> ELSE Head(metra) \o Join(Tail(metra))

Strings(n) == UNION {[1..k -> Symbols] : k \in 0..n}

Iambs == <<"S", "L", "S", "L">>

Anapest == <<"S", "S", "L", "S", "L">>

Resolved == <<"X", "S", "S", "S", "S", "S">>

Openings ==
    { <<>>, Iambs, Iambs \o Iambs, Iambs \o Anapest, Anapest \o Iambs,
      Iambs \o Resolved, Resolved \o Iambs }

\* The values scan_line(line) takes in the runs of the assembler.
RawMeters == {o \o t : o \in Openings, t \in Strings(MaxTail)}

Init ==
    /\ raw_meter \in RawMeters
    /\ pc = "primary"
    /\ idx = 0
    /\ current = <<>>
    /\ trimeter = <<>>
    /\ is_last = TRUE
    /\ countdown = Len(raw_meter)
    /\ outcome = "running"
    /\ result = <<>>
    /\ accepted = <<>>
    /\ MetIdle
    /\ LineIdle

CountdownGuard(c) == c = 1 \/ c > 4

\* One record per accepted candidate: the candidate, the flag it was matched
\* and filled with, the raw-meter positions lo..hi it spans, and how many
\* raw-meter symbols the loop has not read yet.
Acceptance(cand, final, lo, unread) ==
    [candidate |-> cand, final |-> final, lo |-> lo, hi |-> lo + Len(cand) - 1,
     unread |-> unread]

\* One iteration of the loop of scan_trimeter.
PrimaryStep ==
    /\ pc = "primary"
    /\ idx < Len(raw_meter)
    /\ LET pos == Len(raw_meter) - idx
           m == raw_meter[pos]
           cur == <<m>> \o current
       IN  /\ idx' = idx + 1
           /\ IF Len(cur) < 4
              THEN /\ current' = cur
                   /\ UNCHANGED <<pc, trimeter, is_last, countdown, outcome, accepted>>
              ELSE IF is_iambic_metron(cur, is_last) /\ CountdownGuard(countdown)
              THEN LET metron == fill_metron(cur, is_last)
                   IN  IF metron.raised # "none"
                       THEN /\ pc' = "done"
                            /\ outcome' = metron.raised
                            /\ current' = cur
                            /\ UNCHANGED <<trimeter, is_last, countdown, accepted>>
                       ELSE /\ trimeter' = <<metron.value>> \o trimeter
                            /\ current' = <<>>
                            /\ is_last' = FALSE
                            /\ countdown' = countdown - 1
                            /\ accepted' = <<Acceptance(cur, is_last, pos, pos - 1)>> \o accepted
                            /\ UNCHANGED <<pc, outcome>>
              ELSE /\ current' = cur
                   /\ UNCHANGED <<pc, trimeter, is_last, countdown, outcome, accepted>>
    /\ UNCHANGED <<raw_meter, result, metVars, lineVars>>

\* The end of the loop of scan_trimeter: return the joined metra, or call
\* scan_trimeter_2, which starts again from the raw meter.
PrimaryEnd ==
    /\ pc = "primary"
    /\ idx = Len(raw_meter)
    /\ IF Len(trimeter) = 3
       THEN /\ pc' = "done"
            /\ outcome' = "returned"
            /\ result' = Join(trimeter)
            /\ UNCHANGED <<idx, current, trimeter, is_last, countdown, accepted>>
       ELSE /\ pc' = "fallback"
            /\ trimeter' = <<>>
            /\ current' = <<>>
            /\ is_last' = FALSE
            /\ countdown' = Len(raw_meter)
            /\ idx' = 0
            /\ accepted' = <<>>
            /\ UNCHANGED <<outcome, result>>
    /\ UNCHANGED <<raw_meter, metVars, lineVars>>

\* One iteration of the loop of scan_trimeter_2.
FallbackStep ==
    /\ pc = "fallback"
    /\ idx < Len(raw_meter)
    /\ LET m == raw_meter[idx + 1]
           cur == current \o <<m>>
           last == IF Len(cur) >= 4 /\ countdown = 1 THEN TRUE ELSE is_last
       IN  /\ idx' = idx + 1
           /\ is_last' = last
           /\ IF Len(cur) < 4
              THEN /\ current' = cur
                   /\ UNCHANGED <<pc, trimeter, countdown, outcome, accepted>>
              ELSE IF is_iambic_metron(cur, last) /\ CountdownGuard(countdown)
              THEN LET metron == fill_metron(cur, last)
                   IN  IF metron.raised # "none"
                       THEN /\ pc' = "done"
                            /\ outcome' = metron.raised
                            /\ current' = cur
                            /\ UNCHANGED <<trimeter, countdown, accepted>>
                       ELSE /\ trimeter' = Append(trimeter, metron.value)
                            /\ current' = <<>>
                            /\ countdown' = countdown - 1
                            /\ accepted' = Append(accepted,
                                   Acceptance(cur, last, idx + 2 - Len(cur),
                                              Len(raw_meter) - (idx + 1)))
                            /\ UNCHANGED <<pc, outcome>>
              ELSE /\ current' = cur
                   /\ UNCHANGED <<pc, trimeter, countdown, outcome, accepted>>
    /\ UNCHANGED <<raw_meter, result, metVars, lineVars>>

\* scan_trimeter_2 returns its list; scan_trimeter joins it, or reports the
\* failure and returns nothing.
FallbackEnd ==
    /\ pc = "fallback"
    /\ idx = Len(raw_meter)
    /\ pc' = "done"
    /\ IF Len(trimeter) = 3
       THEN /\ outcome' = "returned"
            /\ result' = Join(trimeter)
       ELSE /\ outcome' = "failed"
            /\ UNCHANGED result
    /\ UNCHANGED <<raw_meter, idx, current, trimeter, is_last, countdown, accepted>>
    /\ UNCHANGED <<metVars, lineVars>>

Next == PrimaryStep \/ PrimaryEnd \/ FallbackStep \/ FallbackEnd

Spec == Init /\ [][Next]_vars

(***************************************************************************)
(* Properties of the assembler (specification Spec).                       *)
(***************************************************************************)

\* C1: whenever scan_trimeter returns a scansion string, the three accepted
\* metra are contiguous segments covering the whole raw meter: nothing is
\* left in current and the string has as many symbols as the raw meter.
C1_ResultCoversRawMeter ==
    outcome = "returned" =>
        /\ current = <<>>
        /\ Len(result) = Len(raw_meter)
        /\ Len(accepted) = 3
        /\ accepted[1].lo = 1
        /\ accepted[3].hi = Len(raw_meter)
        /\ \A k \in 1..2 : accepted[k + 1].lo = accepted[k].hi + 1

\* C2: scan_trimeter ends by returning a string or the failure indicator; no
\* call of fill_metron on an accepted candidate raises.
C2_NeverRaises == outcome \in {"running", "returned", "failed"}

\* C3 as stated: a returned string has exactly 12 symbols.
C3_TwelveSymbols == outcome = "returned" => Len(result) = 12

\* C3 as amended: a returned string is made of three filled metra, each as
\* long as the candidate it was filled from (4, 5 or 6 symbols), so it has
\* between 12 and 18 symbols, and 12 exactly when every candidate has 4.
C3_LengthOfCandidates ==
    outcome = "returned" =>
        /\ Len(accepted) = 3
        /\ Len(trimeter) = 3
        /\ \A k \in 1..3 :
              /\ Len(trimeter[k]) = Len(accepted[k].candidate)
              /\ Len(trimeter[k]) \in 4..6
        /\ Len(result) = Len(trimeter[1]) + Len(trimeter[2]) + Len(trimeter[3])
        /\ Len(result) \in 12..18
        /\ (Len(result) = 12) <=> (\A k \in 1..3 : Len(accepted[k].candidate) = 4)

\* A returned string longer than 12 symbols, with a candidate of 5 or 6
\* symbols among its metra.
C3_Witness ==
    /\ outcome = "returned"
    /\ Len(result) > 12
    /\ \E k \in 1..3 : Len(accepted[k].candidate) \in {5, 6}

\* The positions of a returned string at which one of its metra starts.
MetronStarts ==
    {1, 1 + Len(trimeter[1]), 1 + Len(trimeter[1]) + Len(trimeter[2])}

\* C8: in a returned string an X stands only at the first symbol of one of
\* the three metra or at the very last symbol of the line.
C8_UnknownOnlyAtAnceps ==
    outcome = "returned" =>
        \A i \in 1..Len(result) :
            result[i] = "X" => (i \in MetronStarts \/ i = Len(result))

\* A returned string whose second or third metron starts with an X.
C8_Witness ==
    /\ outcome = "returned"
    /\ \E i \in MetronStarts : i > 1 /\ result[i] = "X"

\* C9: after every acceptance, in either pass, the number of raw-meter
\* symbols not yet read is 0 or at least 4.
C9_NoStrandedSymbols ==
    \A k \in 1..Len(accepted) :
        accepted[k].unread = 0 \/ accepted[k].unread >= 4

\* C10: in a returned scansion, exactly the metron ending at the last
\* raw-meter symbol was matched and filled with final=True.
C10_FinalFlagOnLineEnd ==
    outcome = "returned" =>
        \A k \in 1..Len(accepted) :
            accepted[k].final <=> (accepted[k].hi = Len(raw_meter))

(***************************************************************************)
(* One call of is_iambic_metron and, when it accepts, of fill_metron with  *)
(* the same flag, as the two loops make them.                              *)
(***************************************************************************)
MetronInit ==
    /\ metron_in \in Strings(MaxMetronLen)
    /\ final_in \in BOOLEAN
    /\ mpc = "match"
    /\ matched = FALSE
    /\ filled_out = [raised |-> "none", value |-> <<>>]
    /\ AsmIdle
    /\ LineIdle

MetronMatch ==
    /\ mpc = "match"
    /\ matched' = is_iambic_metron(metron_in, final_in)
    /\ mpc' = IF matched' THEN "fill" ELSE "rejected"
    /\ UNCHANGED <<metron_in, final_in, filled_out, asmVars, lineVars>>

MetronFill ==
    /\ mpc = "fill"
    /\ filled_out' = fill_metron(metron_in, final_in)
    /\ mpc' = "filled"
    /\ UNCHANGED <<metron_in, final_in, matched, asmVars, lineVars>>

MetronNext == MetronMatch \/ MetronFill

MetronSpec == MetronInit /\ [][MetronNext]_vars

NoUnknown(s) == \A i \in 1..Len(s) : s[i] # "X"

\* C6: fill_metron returns unchanged every accepted 5-symbol metron that
\* contains no X.
C6_FillReturnsInput ==
    (mpc = "filled" /\ Len(metron_in) = 5 /\ NoUnknown(metron_in)) =>
        filled_out = Returned(metron_in)

\* The candidates of the ranked list that a 5-symbol metron matches.
RankedMatches(metron) ==
    SelectSeq(possible_metra, LAMBDA x : WildcardMatch(metron, x))

\* C7: a 5-symbol metron ending in X and filled with final=True comes back
\* as a 5-symbol string: the first matching candidate as it is when that
\* ends in SSS, and with its last symbol set back to X otherwise.
C7_FinalAncepsRestored ==
    (mpc = "filled" /\ final_in /\ Len(metron_in) = 5 /\ metron_in[5] = "X") =>
        /\ filled_out.raised = "none"
        /\ Len(filled_out.value) = 5
        /\ RankedMatches(metron_in) # <<>>
        /\ LET chosen == RankedMatches(metron_in)[1]
           IN  filled_out.value =
                  IF EndsWithSSS(chosen) THEN chosen ELSE [chosen EXCEPT ![5] = "X"]

(***************************************************************************)
(* The loop of scan_line over the syllables the syllabifier returns.       *)
(***************************************************************************)
Syllables ==
    { <<"tau", "alpha">>,
      <<"tau", "epsilon">>,
      <<"tau", "eta">>,
      <<"xi", "alpha">>,
      <<"tau", "rho", "epsilon">>,
      <<"tau", "rho", "alpha">>,
      <<" ", "tau", "rho", "alpha">>,
      <<"sigma", "tau", "epsilon">>,
      <<"alpha", "nu">>,
      <<"tau", "alpha_breve">>,
      <<"tau", "alpha_macron">>,
      <<"tau", "epsilon", ",">> }

SyllableLists == UNION {[1..n -> Syllables] : n \in 0..MaxSyllables}

LineInit ==
    /\ syl_list \in SyllableLists
    /\ lpc = "loop"
    /\ meter = <<>>
    /\ nat_lens = <<>>
    /\ pos_lens = <<>>
    /\ AsmIdle
    /\ MetIdle

\* One iteration of the loop of scan_line.  nat_lens and pos_lens keep what
\* natural_length and positional_length returned for each syllable ("none"
\* when positional_length was not called).
LineStep ==
    /\ lpc = "loop"
    /\ Len(meter) < Len(syl_list)
    /\ LET i == Len(meter) + 1
           syl == syl_list[i]
           nat == natural_length(syl)
           next_syl == IF i = Len(syl_list) THEN END ELSE syl_list[i + 1]
           pos_len == IF nat # LONG THEN positional_length(syl, next_syl) ELSE "none"
           current_length == IF nat # LONG THEN CombineLengths(nat, pos_len) ELSE nat
       IN  /\ meter' = Append(meter, current_length)
           /\ nat_lens' = Append(nat_lens, nat)
           /\ pos_lens' = Append(pos_lens, pos_len)
    /\ UNCHANGED <<syl_list, lpc, asmVars, metVars>>

LineReturn ==
    /\ lpc = "loop"
    /\ Len(meter) = Len(syl_list)
    /\ lpc' = "done"
    /\ UNCHANGED <<syl_list, meter, nat_lens, pos_lens, asmVars, metVars>>

LineNext == LineStep \/ LineReturn

LineSpec == LineInit /\ [][LineNext]_vars

\* C4: positional_length(syl, END), as scan_line calls it for the last
\* syllable of a line, never returns SHORT.
C4_LineEndNeverShort ==
    \A k \in 1..Len(pos_lens) : k = Len(syl_list) => pos_lens[k] # SHORT

\* C5 as stated: LONG if either length is LONG, else SHORT if the natural
\* length is SHORT, else the positional length.  Stated of the syllables that
\* are followed by another one, so that the line-end call of
\* positional_length plays no part.
C5_ShortByNatureStands ==
    \A k \in 1..Len(meter) :
        k < Len(syl_list) =>
            meter[k] = IF nat_lens[k] = LONG \/ pos_lens[k] = LONG THEN LONG
                       ELSE IF nat_lens[k] = SHORT THEN SHORT
                       ELSE pos_lens[k]

\* C5 as amended: LONG if either length is LONG; else a natural SHORT takes
\* the positional length (SHORT or UNKNOWN) and a natural UNKNOWN stays
\* UNKNOWN whatever the positional length.
C5_CombinationTable ==
    \A k \in 1..Len(meter) :
        /\ nat_lens[k] = LONG => (meter[k] = LONG /\ pos_lens[k] = "none")
        /\ pos_lens[k] = LONG => meter[k] = LONG
        /\ (nat_lens[k] = SHORT /\ pos_lens[k] = SHORT) => meter[k] = SHORT
        /\ (nat_lens[k] = SHORT /\ pos_lens[k] = UNKNOWN) => meter[k] = UNKNOWN
        /\ (nat_lens[k] = UNKNOWN /\ pos_lens[k] = SHORT) => meter[k] = UNKNOWN
        /\ (nat_lens[k] = UNKNOWN /\ pos_lens[k] = UNKNOWN) => meter[k] = UNKNOWN

\* A line with a syllable short by nature before a mute+liquid cluster and a
\* syllable of unknown nature before a single consonant.
C5_Witness ==
    /\ \E k \in 1..Len(meter) :
          nat_lens[k] = SHORT /\ pos_lens[k] = UNKNOWN /\ meter[k] = UNKNOWN
    /\ \E k \in 1..Len(meter) :
          nat_lens[k] = UNKNOWN /\ pos_lens[k] = SHORT /\ meter[k] = UNKNOWN

====
